---- MODULE Spec2Model ----
(***************************************************************************)
(* Model of the accounting engine (src/src/user.rs, src/src/engine.rs).    *)
(*                                                                         *)
(* Engine::process_data reads the input one record at a time and hands     *)
(* each request to Engine::process_tx, which creates the user on first     *)
(* reference and delegates to User::process_tx.  A record that does not    *)
(* deserialize is reported and skipped; an error of the csv reader itself  *)
(* is unwrapped and panics.  The state is the map of users, the Result     *)
(* process_tx returned last, the number of records read and whether the    *)
(* run has panicked.                                                       *)
(*                                                                         *)
(* Amounts, Account.total and Account.held are f64 in the source.  They    *)
(* are modelled as binary floating-point numbers with round-to-nearest,    *)
(* ties-to-even, counted in units of the smallest quantum, with a          *)
(* significand of Precision bits (53 in the source, scaled down here as    *)
(* an integer width would be).  NaN and the infinities are not modelled.   *)
(***************************************************************************)
EXTENDS Integers, Sequences, FiniteSets, TLC

\* ---------------------------------------------------------------- bounds
\* Number of records of the input file.
MaxRecords == 4
\* Bits of the significand of the floating-point format (53 for f64).
Precision == 2

\* Client ids (u16 in the source).  Users meet only in the map of the engine,
\* so two of them show routing and isolation.
Clients == {1, 2}
\* Transaction ids (u32 in the source), scoped by user.
TxIds == {1, 2}

\* ------------------------------------------------- f64 arithmetic (scaled)
RECURSIVE BitLen(_)
BitLen(x) == IF x = 0 THEN 0 ELSE 1 + BitLen(x \div 2)

RECURSIVE Pow2(_)
Pow2(e) == IF e = 0 THEN 1 ELSE 2 * Pow2(e - 1)

\* Round a non-negative magnitude to Precision significant bits, ties to even.
RoundMag(x) ==
    LET e == IF BitLen(x) > Precision THEN BitLen(x) - Precision ELSE 0
        q == Pow2(e)
        m == x \div q
        rem == x - m * q
    IN  IF 2 * rem < q THEN m * q
        ELSE IF 2 * rem > q THEN (m + 1) * q
        ELSE IF m % 2 = 0 THEN m * q ELSE (m + 1) * q

Round(x) == IF x < 0 THEN 0 - RoundMag(0 - x) ELSE RoundMag(x)

\* f64 `+` and `-`: the exact result, rounded.
FAdd(a, b) == Round(a + b)
FSub(a, b) == Round(a - b)

\* --------------------------------------------------------------- requests
\* Option<f64>: None is <<>>, Some(v) is <<v>>.
None == <<>>
Some(v) == <<v>>
IsNone(a) == a = <<>>
Unwrap(a) == a[1]

Deposit == "deposit"
Withdrawal == "withdrawal"
Dispute == "dispute"
Resolve == "resolve"
Chargeback == "chargeback"
TransactionType == {Deposit, Withdrawal, Dispute, Resolve, Chargeback}

Normal == "Normal"
Disputed == "Disputed"
Chargedback == "Chargedback"

\* The amounts a request can carry: absent, zero, negative, positive.
AmountValues == {0 - 1, 0, 2, 3}
Amounts == {None} \cup {Some(v) : v \in AmountValues}

TransactionRequset ==
    [type : TransactionType, client : Clients, tx : TxIds, amount : Amounts]

\* ---------------------------------------------------------------- results
\* Result<(), String>: Ok, or the message of the Err (without the request).
Ok == "Ok"
ErrFrozen == "Account frozen"
ErrDoubled == "Doubled transaction id. Ignored."
ErrInvalidData == "Invalid transaction data. Ignored."
ErrInsufficient == "Insufficient funds."
ErrInvalidTxId == "Invalid tx id. Ignored."
ErrCantDispute == "Transaction can't be dispputed. Ignored."
ErrCantResolve == "Transaction can't be resolved. Ignored."

VARIABLES users, result, nread, panicked

vars == <<users, result, nread, panicked>>

\* ------------------------------------------------------------------- User
avalible(account) == FSub(account.total, account.held)

\* HashMap::insert
MapInsert(m, k, v) == [x \in DOMAIN m \cup {k} |-> IF x = k THEN v ELSE m[x]]

NewUser(c) ==
    [id |-> c, account |-> [total |-> 0, held |-> 0],
     tx_history |-> <<>>, frozen |-> FALSE]

Transatcion(tx) ==
    [tx_type |-> tx.type, amount |-> Unwrap(tx.amount), state |-> Normal]

\* Mutant: the history is not looked up, the insert replaces the entry.
process_deposit_Overwrites(user, tx) ==
    IF IsNone(tx.amount) \/ Unwrap(tx.amount) = 0
    THEN [user |-> user, res |-> ErrInvalidData]
    ELSE [user |-> [user EXCEPT
                      !.tx_history = MapInsert(@, tx.tx, Transatcion(tx)),
                      !.account.total = FAdd(@, Unwrap(tx.amount))],
          res |-> Ok]

\* Mutant: the amount is checked before the transaction id.
process_deposit_AmountFirst(user, tx) ==
    IF IsNone(tx.amount) \/ Unwrap(tx.amount) = 0
    THEN [user |-> user, res |-> ErrInvalidData]
    ELSE IF tx.tx \in DOMAIN user.tx_history
    THEN [user |-> user, res |-> ErrDoubled]
    ELSE [user |-> [user EXCEPT
                      !.tx_history = MapInsert(@, tx.tx, Transatcion(tx)),
                      !.account.total = FAdd(@, Unwrap(tx.amount))],
          res |-> Ok]

\* Mutant: only an absent amount is rejected, a zero amount is accepted.
process_deposit_AcceptsZero(user, tx) ==
    IF tx.tx \in DOMAIN user.tx_history
    THEN [user |-> user, res |-> ErrDoubled]
    ELSE IF IsNone(tx.amount)
    THEN [user |-> user, res |-> ErrInvalidData]
    ELSE [user |-> [user EXCEPT
                      !.tx_history = MapInsert(@, tx.tx, Transatcion(tx)),
                      !.account.total = FAdd(@, Unwrap(tx.amount))],
          res |-> Ok]

process_deposit(user, tx) ==
    IF tx.tx \in DOMAIN user.tx_history
    THEN [user |-> user, res |-> ErrDoubled]
    ELSE IF IsNone(tx.amount) \/ Unwrap(tx.amount) = 0
    THEN [user |-> user, res |-> ErrInvalidData]
    ELSE [user |-> [user EXCEPT
                      !.tx_history = MapInsert(@, tx.tx, Transatcion(tx)),
                      !.account.total = FAdd(@, Unwrap(tx.amount))],
          res |-> Ok]

\* Mutant: the amount is compared with total instead of avalible().
process_withdrawal_ChecksTotal(user, tx) ==
    IF tx.tx \in DOMAIN user.tx_history
    THEN [user |-> user, res |-> ErrDoubled]
    ELSE IF IsNone(tx.amount) \/ Unwrap(tx.amount) = 0
    THEN [user |-> user, res |-> ErrInvalidData]
    ELSE IF Unwrap(tx.amount) > user.account.total
    THEN [user |-> user, res |-> ErrInsufficient]
    ELSE [user |-> [user EXCEPT
                      !.tx_history = MapInsert(@, tx.tx, Transatcion(tx)),
                      !.account.total = FSub(@, Unwrap(tx.amount))],
          res |-> Ok]

\* Mutant: the entry is inserted before the funds are checked.
process_withdrawal_InsertsFirst(user, tx) ==
    IF tx.tx \in DOMAIN user.tx_history
    THEN [user |-> user, res |-> ErrDoubled]
    ELSE IF IsNone(tx.amount) \/ Unwrap(tx.amount) = 0
    THEN [user |-> user, res |-> ErrInvalidData]
    ELSE IF Unwrap(tx.amount) > avalible(user.account)
    THEN [user |-> [user EXCEPT
                      !.tx_history = MapInsert(@, tx.tx, Transatcion(tx))],
          res |-> ErrInsufficient]
    ELSE [user |-> [user EXCEPT
                      !.tx_history = MapInsert(@, tx.tx, Transatcion(tx)),
                      !.account.total = FSub(@, Unwrap(tx.amount))],
          res |-> Ok]

process_withdrawal(user, tx) ==
    IF tx.tx \in DOMAIN user.tx_history
    THEN [user |-> user, res |-> ErrDoubled]
    ELSE IF IsNone(tx.amount) \/ Unwrap(tx.amount) = 0
    THEN [user |-> user, res |-> ErrInvalidData]
    ELSE IF Unwrap(tx.amount) > avalible(user.account)
    THEN [user |-> user, res |-> ErrInsufficient]
    ELSE [user |-> [user EXCEPT
                      !.tx_history = MapInsert(@, tx.tx, Transatcion(tx)),
                      !.account.total = FSub(@, Unwrap(tx.amount))],
          res |-> Ok]

\* Mutant: only a charged back entry cannot be disputed.
process_dispute_AgainWhileDisputed(user, tx) ==
    IF tx.tx \notin DOMAIN user.tx_history
    THEN [user |-> user, res |-> ErrInvalidTxId]
    ELSE IF user.tx_history[tx.tx].state = Chargedback
    THEN [user |-> user, res |-> ErrCantDispute]
    ELSE [user |-> [user EXCEPT
                      !.tx_history[tx.tx].state = Disputed,
                      !.account.held = FAdd(@, user.tx_history[tx.tx].amount)],
          res |-> Ok]

\* Mutant: the amount of a disputed withdrawal is taken off held.
process_dispute_SignedByKind(user, tx) ==
    IF tx.tx \notin DOMAIN user.tx_history
    THEN [user |-> user, res |-> ErrInvalidTxId]
    ELSE IF user.tx_history[tx.tx].state # Normal
    THEN [user |-> user, res |-> ErrCantDispute]
    ELSE [user |-> [user EXCEPT
                      !.tx_history[tx.tx].state = Disputed,
                      !.account.held =
                          IF user.tx_history[tx.tx].tx_type = Withdrawal
                          THEN FSub(@, user.tx_history[tx.tx].amount)
                          ELSE FAdd(@, user.tx_history[tx.tx].amount)],
          res |-> Ok]

process_dispute(user, tx) ==
    IF tx.tx \notin DOMAIN user.tx_history
    THEN [user |-> user, res |-> ErrInvalidTxId]
    ELSE IF user.tx_history[tx.tx].state # Normal
    THEN [user |-> user, res |-> ErrCantDispute]
    ELSE [user |-> [user EXCEPT
                      !.tx_history[tx.tx].state = Disputed,
                      !.account.held = FAdd(@, user.tx_history[tx.tx].amount)],
          res |-> Ok]

\* Mutant: the resolve releases the held amount and leaves the entry Disputed.
process_resolve_KeepsDisputed(user, tx) ==
    IF tx.tx \notin DOMAIN user.tx_history
    THEN [user |-> user, res |-> ErrInvalidTxId]
    ELSE IF user.tx_history[tx.tx].state # Disputed
    THEN [user |-> user, res |-> ErrCantResolve]
    ELSE [user |-> [user EXCEPT
                      !.account.held = FSub(@, user.tx_history[tx.tx].amount)],
          res |-> Ok]

\* Mutant: a resolve of an id that is not in the history is accepted.
process_resolve_UnknownIsOk(user, tx) ==
    IF tx.tx \notin DOMAIN user.tx_history
    THEN [user |-> user, res |-> Ok]
    ELSE IF user.tx_history[tx.tx].state # Disputed
    THEN [user |-> user, res |-> ErrCantResolve]
    ELSE [user |-> [user EXCEPT
                      !.tx_history[tx.tx].state = Normal,
                      !.account.held = FSub(@, user.tx_history[tx.tx].amount)],
          res |-> Ok]

process_resolve(user, tx) ==
    IF tx.tx \notin DOMAIN user.tx_history
    THEN [user |-> user, res |-> ErrInvalidTxId]
    ELSE IF user.tx_history[tx.tx].state # Disputed
    THEN [user |-> user, res |-> ErrCantResolve]
    ELSE [user |-> [user EXCEPT
                      !.tx_history[tx.tx].state = Normal,
                      !.account.held = FSub(@, user.tx_history[tx.tx].amount)],
          res |-> Ok]

\* Mutant: the chargeback marks the entry and leaves the account open.
process_chargeback_NoFreeze(user, tx) ==
    IF tx.tx \notin DOMAIN user.tx_history
    THEN [user |-> user, res |-> ErrInvalidTxId]
    ELSE IF user.tx_history[tx.tx].state # Disputed
    THEN [user |-> user, res |-> ErrCantResolve]
    ELSE [user |-> [user EXCEPT
                      !.tx_history[tx.tx].state = Chargedback,
                      !.account.held = FSub(@, user.tx_history[tx.tx].amount),
                      !.account.total = FSub(@, user.tx_history[tx.tx].amount)],
          res |-> Ok]

\* Mutant: the account is frozen before the state of the entry is checked.
process_chargeback_FreezesFirst(user, tx) ==
    IF tx.tx \notin DOMAIN user.tx_history
    THEN [user |-> user, res |-> ErrInvalidTxId]
    ELSE IF user.tx_history[tx.tx].state # Disputed
    THEN [user |-> [user EXCEPT !.frozen = TRUE], res |-> ErrCantResolve]
    ELSE [user |-> [user EXCEPT
                      !.tx_history[tx.tx].state = Chargedback,
                      !.account.held = FSub(@, user.tx_history[tx.tx].amount),
                      !.account.total = FSub(@, user.tx_history[tx.tx].amount),
                      !.frozen = TRUE],
          res |-> Ok]

\* Mutant: only a charged back entry cannot be charged back.
process_chargeback_FromNormal(user, tx) ==
    IF tx.tx \notin DOMAIN user.tx_history
    THEN [user |-> user, res |-> ErrInvalidTxId]
    ELSE IF user.tx_history[tx.tx].state = Chargedback
    THEN [user |-> user, res |-> ErrCantResolve]
    ELSE [user |-> [user EXCEPT
                      !.tx_history[tx.tx].state = Chargedback,
                      !.account.held = FSub(@, user.tx_history[tx.tx].amount),
                      !.account.total = FSub(@, user.tx_history[tx.tx].amount),
                      !.frozen = TRUE],
          res |-> Ok]

\* Mutant: the chargeback releases the held amount but keeps total.
process_chargeback_KeepsTotal(user, tx) ==
    IF tx.tx \notin DOMAIN user.tx_history
    THEN [user |-> user, res |-> ErrInvalidTxId]
    ELSE IF user.tx_history[tx.tx].state # Disputed
    THEN [user |-> user, res |-> ErrCantResolve]
    ELSE [user |-> [user EXCEPT
                      !.tx_history[tx.tx].state = Chargedback,
                      !.account.held = FSub(@, user.tx_history[tx.tx].amount),
                      !.frozen = TRUE],
          res |-> Ok]

process_chargeback(user, tx) ==
    IF tx.tx \notin DOMAIN user.tx_history
    THEN [user |-> user, res |-> ErrInvalidTxId]
    ELSE IF user.tx_history[tx.tx].state # Disputed
    THEN [user |-> user, res |-> ErrCantResolve]
    ELSE [user |-> [user EXCEPT
                      !.tx_history[tx.tx].state = Chargedback,
                      !.account.held = FSub(@, user.tx_history[tx.tx].amount),
                      !.account.total = FSub(@, user.tx_history[tx.tx].amount),
                      !.frozen = TRUE],
          res |-> Ok]

\* Mutant: the frozen flag is not looked at.
UserProcessTx_NoFrozenGuard(user, tx) ==
    CASE tx.type = Deposit -> process_deposit(user, tx)
      [] tx.type = Withdrawal -> process_withdrawal(user, tx)
      [] tx.type = Dispute -> process_dispute(user, tx)
      [] tx.type = Resolve -> process_resolve(user, tx)
      [] tx.type = Chargeback -> process_chargeback(user, tx)

UserProcessTx(user, tx) ==
    IF user.frozen
    THEN [user |-> user, res |-> ErrFrozen]
    ELSE CASE tx.type = Deposit -> process_deposit(user, tx)
           [] tx.type = Withdrawal -> process_withdrawal(user, tx)
           [] tx.type = Dispute -> process_dispute(user, tx)
           [] tx.type = Resolve -> process_resolve(user, tx)
           [] tx.type = Chargeback -> process_chargeback(user, tx)

\* ----------------------------------------------------------------- Engine
\* The users map after the lookup of tx.client, which inserts a new user
\* when there is none.
GetOrInsert(us, c) ==
    IF c \in DOMAIN us THEN us ELSE MapInsert(us, c, NewUser(c))

\* Mutant: the ids of deposits and withdrawals are unique over all users.
EngineProcessTx_GlobalIds(us, tx) ==
    LET with == GetOrInsert(us, tx.client)
        out == UserProcessTx(with[tx.client], tx)
    IN  IF /\ tx.type \in {Deposit, Withdrawal}
           /\ \E d \in DOMAIN us : tx.tx \in DOMAIN us[d].tx_history
        THEN [users |-> with, res |-> ErrDoubled]
        ELSE [users |-> [with EXCEPT ![tx.client] = out.user],
              res |-> out.res]

\* Mutant: a user created for a request that fails is not kept.
EngineProcessTx_DropsOnError(us, tx) ==
    LET with == GetOrInsert(us, tx.client)
        out == UserProcessTx(with[tx.client], tx)
    IN  IF out.res # Ok /\ tx.client \notin DOMAIN us
        THEN [users |-> us, res |-> out.res]
        ELSE [users |-> [with EXCEPT ![tx.client] = out.user],
              res |-> out.res]

EngineProcessTx(us, tx) ==
    LET with == GetOrInsert(us, tx.client)
        out == UserProcessTx(with[tx.client], tx)
    IN  [users |-> [with EXCEPT ![tx.client] = out.user], res |-> out.res]

\* The lines of the input that do not give a request: the number of fields
\* differs from the header's, the type is not one of the five tokens, or a
\* value does not parse as u16, u32 or f64.
MalformedLines ==
    {line \in [fields : {"as header", "fewer", "more"},
               type : {"deposit", "transfer"},
               values_parse : BOOLEAN] :
        \/ line.fields # "as header"
        \/ line.type \notin TransactionType
        \/ ~line.values_parse}

\* rdr.records() yields an Err for a record whose number of fields is not
\* that of the first record (the reader is not built flexible).
ReaderRejects(line) == line.fields # "as header"

\* deserialize::<TransactionRequset> yields an Err.
DeserializeFails(line) ==
    line.type \notin TransactionType \/ ~line.values_parse

\* One iteration of the loop of process_data on a well-formed record.
ProcessRecord(tx) ==
    /\ nread < MaxRecords
    /\ ~panicked
    /\ LET out == EngineProcessTx(users, tx)
       IN  /\ users' = out.users
           /\ result' = out.res
    /\ nread' = nread + 1
    /\ UNCHANGED panicked

\* One iteration on a record the reader yields and that does not
\* deserialize: the error is printed and the loop goes on.
SkipRecord(line) ==
    /\ nread < MaxRecords
    /\ ~panicked
    /\ ~ReaderRejects(line)
    /\ DeserializeFails(line)
    /\ nread' = nread + 1
    /\ UNCHANGED <<users, result, panicked>>

\* One iteration on an Err of the reader: record.unwrap() panics and the
\* run ends there.
ReaderPanic(line) ==
    /\ nread < MaxRecords
    /\ ~panicked
    /\ ReaderRejects(line)
    /\ nread' = nread + 1
    /\ panicked' = TRUE
    /\ UNCHANGED <<users, result>>

Init ==
    /\ users = <<>>
    /\ result = Ok
    /\ nread = 0
    /\ panicked = FALSE

Next ==
    \/ \E tx \in TransactionRequset : ProcessRecord(tx)
    \/ \E line \in MalformedLines : SkipRecord(line)
    \/ \E line \in MalformedLines : ReaderPanic(line)

Spec == Init /\ [][Next]_vars

\* ------------------------------------------------- vocabulary of the claims
\* The account of client c as process_tx finds it (created on first use).
Pre(c) == GetOrInsert(users, c)[c]
\* The outcome of the next record when it is tx.
Apply(tx) == EngineProcessTx(users, tx)
\* The account of tx.client after tx.
Post(tx) == Apply(tx).users[tx.client]
\* There is a next record and the run is there to read it.
Running == nread < MaxRecords /\ ~panicked
Requests(kinds) ==
    [type : kinds, client : Clients, tx : TxIds, amount : Amounts]
Entries(user) == DOMAIN user.tx_history
HasAmount(tx) == ~IsNone(tx.amount) /\ Unwrap(tx.amount) # 0
PositiveHistory(user) == \A t \in Entries(user) : user.tx_history[t].amount > 0

\* C1: with positive amounts only, every account has held <= total, that is
\* available = total - held is never negative.
C1_HeldAtMostTotal ==
    \A c \in DOMAIN users :
        PositiveHistory(users[c]) =>
            /\ users[c].account.held <= users[c].account.total
            /\ users[c].account.total - users[c].account.held >= 0

\* C2: every account has held >= 0.
C2_HeldNonNegative ==
    \A c \in DOMAIN users : users[c].account.held >= 0

\* C3: on a frozen account every request, of any kind, id and amount, fails
\* with "Account frozen" and leaves the user (total, held, history, frozen)
\* and every other user as they were; so frozen stays true.
C3_FrozenIsFinal ==
    Running =>
        \A tx \in TransactionRequset :
            (tx.client \in DOMAIN users /\ users[tx.client].frozen) =>
                LET out == Apply(tx)
                IN  /\ out.res = ErrFrozen
                    /\ out.users = users

C3_Witness ==
    /\ result = ErrFrozen
    /\ \E c \in DOMAIN users : users[c].frozen

\* C4: a chargeback on a non-frozen account of an entry in state Disputed
\* succeeds, sets the entry to Chargedback, takes the entry's amount off
\* held and off total and freezes the account, for deposits and withdrawals.
C4_Chargeback ==
    Running =>
        \A tx \in Requests({Chargeback}) :
            LET pre == Pre(tx.client) IN
            (/\ ~pre.frozen
             /\ tx.tx \in Entries(pre)
             /\ pre.tx_history[tx.tx].state = Disputed) =>
                LET amount == pre.tx_history[tx.tx].amount
                    post == Post(tx)
                IN  /\ Apply(tx).res = Ok
                    /\ post.tx_history =
                         [pre.tx_history EXCEPT ![tx.tx].state = Chargedback]
                    /\ post.account.held = FSub(pre.account.held, amount)
                    /\ post.account.total = FSub(pre.account.total, amount)
                    /\ post.frozen

C4_Witness ==
    /\ result = Ok
    /\ \E c \in DOMAIN users : \E t \in Entries(users[c]) :
          /\ users[c].frozen
          /\ users[c].tx_history[t].state = Chargedback
          /\ users[c].tx_history[t].tx_type = Withdrawal

\* post is pre with one more history entry, under id t, and total, held and
\* frozen as given.
Inserted(pre, post, t, entry) ==
    /\ Entries(post) = Entries(pre) \cup {t}
    /\ post.tx_history[t] = entry
    /\ \A u \in Entries(pre) : post.tx_history[u] = pre.tx_history[u]
    /\ post.id = pre.id

\* C5: a withdrawal on a non-frozen account with a fresh id and a present,
\* non-zero amount fails with "Insufficient funds." exactly when the amount
\* is greater than avalible() = total - held; otherwise, also when the two
\* are equal, it succeeds, inserts {withdrawal, amount, Normal} under the
\* id, takes the amount off total and leaves held as it was.
C5_Withdrawal ==
    Running =>
        \A tx \in Requests({Withdrawal}) :
            LET pre == Pre(tx.client) IN
            (~pre.frozen /\ tx.tx \notin Entries(pre) /\ HasAmount(tx)) =>
                LET amount == Unwrap(tx.amount)
                    post == Post(tx)
                IN  /\ Apply(tx).res = ErrInsufficient
                          <=> amount > avalible(pre.account)
                    /\ amount > avalible(pre.account) => post = pre
                    /\ amount <= avalible(pre.account) =>
                          /\ Apply(tx).res = Ok
                          /\ Inserted(pre, post, tx.tx,
                                 [tx_type |-> Withdrawal, amount |-> amount,
                                  state |-> Normal])
                          /\ post.account.total =
                                 FSub(pre.account.total, amount)
                          /\ post.account.held = pre.account.held
                          /\ post.frozen = pre.frozen

\* A withdrawal has been refused on the only account there is, although no
\* amount exceeds its total: part of the total is held.
C5_Witness ==
    /\ result = ErrInsufficient
    /\ \E c \in Clients :
          /\ DOMAIN users = {c}
          /\ ~users[c].frozen
          /\ users[c].account.held > 0
          /\ \A v \in AmountValues : v <= users[c].account.total

\* C6: a deposit on a non-frozen account with a fresh id and a present,
\* non-zero amount succeeds, inserts {deposit, amount, Normal} under the id,
\* adds the amount to total and leaves held and frozen as they were; with an
\* absent or zero amount it fails with "Invalid transaction data" and
\* changes nothing.
C6_Deposit ==
    Running =>
        \A tx \in Requests({Deposit}) :
            LET pre == Pre(tx.client)
                post == Post(tx)
            IN  (~pre.frozen /\ tx.tx \notin Entries(pre)) =>
                    /\ HasAmount(tx) =>
                          /\ Apply(tx).res = Ok
                          /\ Inserted(pre, post, tx.tx,
                                 [tx_type |-> Deposit,
                                  amount |-> Unwrap(tx.amount),
                                  state |-> Normal])
                          /\ post.account.total =
                                 FAdd(pre.account.total, Unwrap(tx.amount))
                          /\ post.account.held = pre.account.held
                          /\ post.frozen = pre.frozen
                    /\ ~HasAmount(tx) =>
                          /\ Apply(tx).res = ErrInvalidData
                          /\ post = pre

C6_Witness ==
    /\ result = ErrInvalidData
    /\ \E c \in DOMAIN users : \E t \in Entries(users[c]) :
          /\ users[c].tx_history[t].tx_type = Deposit
          /\ users[c].account.total = users[c].tx_history[t].amount
          /\ Cardinality(Entries(users[c])) = 1

\* C7 as stated: in every reachable state of every account, a deposit or
\* withdrawal whose id is a key of the history fails with "Doubled
\* transaction id" and leaves the account as it was.
C7_DuplicateAlways ==
    \A tx \in Requests({Deposit, Withdrawal}) :
        (tx.client \in DOMAIN users /\ tx.tx \in Entries(users[tx.client])) =>
            /\ Apply(tx).res = ErrDoubled
            /\ Apply(tx).users = users

\* C7 amended: on an account that is not frozen, a deposit or withdrawal
\* whose id is a key of the history fails with "Doubled transaction id",
\* whatever the stored entry and the new amount, and changes nothing; on a
\* frozen account it fails with "Account frozen" and changes nothing.
C7_DuplicateUnlessFrozen ==
    Running =>
        \A tx \in Requests({Deposit, Withdrawal}) :
            (tx.client \in DOMAIN users
                /\ tx.tx \in Entries(users[tx.client])) =>
                /\ Apply(tx).res =
                      IF users[tx.client].frozen THEN ErrFrozen ELSE ErrDoubled
                /\ Apply(tx).users = users

C7_Witness ==
    /\ result = ErrDoubled
    /\ \E c \in DOMAIN users :
          /\ \E t \in Entries(users[c]) :
                users[c].tx_history[t].tx_type = Withdrawal
          /\ \E t \in Entries(users[c]) :
                users[c].tx_history[t].tx_type = Deposit

\* C8: a deposit or withdrawal that fails with "Invalid transaction data" or
\* "Insufficient funds." does not add its id to the history: a deposit or
\* withdrawal that reuses the id on the same account right after it is not
\* refused as doubled, and a deposit with a present, non-zero amount
\* succeeds under that id.
C8_FailureKeepsIdFree ==
    Running =>
        \A tx \in Requests({Deposit, Withdrawal}) :
            LET out == Apply(tx) IN
            out.res \in {ErrInvalidData, ErrInsufficient} =>
                /\ tx.tx \notin Entries(out.users[tx.client])
                /\ out.users[tx.client] = Pre(tx.client)
                /\ \A kind \in {Deposit, Withdrawal} : \A amount \in Amounts :
                      LET again == [type |-> kind, client |-> tx.client,
                                    tx |-> tx.tx, amount |-> amount]
                          retry == EngineProcessTx(out.users, again)
                      IN  /\ retry.res # ErrDoubled
                          /\ (kind = Deposit /\ HasAmount(again)) =>
                                /\ retry.res = Ok
                                /\ tx.tx \in Entries(retry.users[tx.client])

\* A withdrawal has been refused for lack of funds on an account with a
\* history, and its id is still free there.
C8_Witness ==
    /\ result = ErrInsufficient
    /\ \E c \in DOMAIN users :
          /\ Entries(users[c]) # {}
          /\ TxIds \ Entries(users[c]) # {}
          /\ \E tx \in Requests({Withdrawal}) :
                /\ tx.client = c
                /\ tx.tx \notin Entries(users[c])
                /\ EngineProcessTx(users, tx).res = ErrInsufficient

\* C9: a dispute on a non-frozen account of an entry in state Normal
\* succeeds, sets the entry to Disputed and adds the entry's stored amount
\* to held, for a deposit as for a withdrawal, whatever amount the dispute
\* itself carries; total and frozen stay as they were.
C9_Dispute ==
    Running =>
        \A tx \in Requests({Dispute}) :
            LET pre == Pre(tx.client) IN
            (/\ ~pre.frozen
             /\ tx.tx \in Entries(pre)
             /\ pre.tx_history[tx.tx].state = Normal) =>
                LET post == Post(tx) IN
                /\ Apply(tx).res = Ok
                /\ post.tx_history =
                      [pre.tx_history EXCEPT ![tx.tx].state = Disputed]
                /\ post.account.held =
                      FAdd(pre.account.held, pre.tx_history[tx.tx].amount)
                /\ post.account.total = pre.account.total
                /\ post.frozen = pre.frozen

C9_Witness ==
    /\ result = Ok
    /\ \E c \in DOMAIN users : \E t \in Entries(users[c]) :
          /\ users[c].tx_history[t].state = Disputed
          /\ users[c].tx_history[t].tx_type = Withdrawal
          /\ users[c].account.held = users[c].tx_history[t].amount
          /\ ~users[c].frozen

\* C10: a dispute followed at once by the resolve of the same id on the same
\* account is a round trip: whenever the dispute succeeds, the resolve
\* succeeds, total, held and available are what they were before the
\* dispute, and the entry is Normal again.
C10_DisputeResolveRoundTrip ==
    \A tx \in Requests({Dispute}) :
        Apply(tx).res = Ok =>
            LET pre == Pre(tx.client)
                back == EngineProcessTx(Apply(tx).users,
                                        [tx EXCEPT !.type = Resolve])
                post == back.users[tx.client]
            IN  /\ back.res = Ok
                /\ post.account.total = pre.account.total
                /\ post.account.held = pre.account.held
                /\ avalible(post.account) = avalible(pre.account)
                /\ post.tx_history[tx.tx].state = Normal

\* C11 as stated: a dispute, resolve or chargeback whose id is not a key of
\* the account's history fails with "Invalid tx id" and leaves total, held,
\* frozen and the history as they were.
C11_UnknownTransactionAlways ==
    \A tx \in Requests({Dispute, Resolve, Chargeback}) :
        tx.tx \notin Entries(Pre(tx.client)) =>
            LET out == Apply(tx)
            IN  /\ out.res = ErrInvalidTxId
                /\ out.users[tx.client] = Pre(tx.client)

\* C11 amended: on an account that is not frozen, a dispute, resolve or
\* chargeback whose id is not a key of the history fails with "Invalid tx
\* id"; on a frozen account it fails with "Account frozen"; in both cases
\* total, held, frozen and the history stay as they were.
C11_UnknownTransactionUnlessFrozen ==
    Running =>
        \A tx \in Requests({Dispute, Resolve, Chargeback}) :
            LET pre == Pre(tx.client) IN
            tx.tx \notin Entries(pre) =>
                LET out == Apply(tx)
                IN  /\ out.res =
                          IF pre.frozen THEN ErrFrozen ELSE ErrInvalidTxId
                    /\ out.users[tx.client] = pre

\* An id was not found in a history that has another entry.
C11_Witness ==
    /\ result = ErrInvalidTxId
    /\ \E c \in DOMAIN users :
          /\ Entries(users[c]) # {}
          /\ Entries(users[c]) # TxIds
          /\ DOMAIN users = {c}

\* C12 as stated: a dispute of an entry in state Disputed or Chargedback
\* fails with "Transaction can't be dispputed" and leaves total, held and
\* available as they were.
C12_DisputeTwiceAlways ==
    \A tx \in Requests({Dispute}) :
        (/\ tx.client \in DOMAIN users
         /\ tx.tx \in Entries(users[tx.client])
         /\ users[tx.client].tx_history[tx.tx].state
                \in {Disputed, Chargedback}) =>
            LET out == Apply(tx)
            IN  /\ out.res = ErrCantDispute
                /\ out.users[tx.client].account = users[tx.client].account

\* C12 amended: a dispute of an entry in state Disputed on an account that
\* is not frozen fails with "Transaction can't be dispputed"; an account
\* with an entry in state Chargedback is frozen, and on a frozen account the
\* dispute fails with "Account frozen"; in every case total, held and
\* available stay as they were.
C12_DisputeTwiceUnlessFrozen ==
    Running =>
        \A tx \in Requests({Dispute}) :
            (/\ tx.client \in DOMAIN users
             /\ tx.tx \in Entries(users[tx.client])
             /\ users[tx.client].tx_history[tx.tx].state
                    \in {Disputed, Chargedback}) =>
                LET pre == users[tx.client]
                    out == Apply(tx)
                IN  /\ out.res =
                          IF pre.frozen THEN ErrFrozen ELSE ErrCantDispute
                    /\ pre.tx_history[tx.tx].state = Chargedback => pre.frozen
                    /\ out.users[tx.client].account = pre.account
                    /\ avalible(out.users[tx.client].account)
                          = avalible(pre.account)
                    /\ out.users = users

C12_Witness ==
    /\ result = ErrCantDispute
    /\ \E c \in DOMAIN users : \E t \in Entries(users[c]) :
          /\ users[c].tx_history[t].state = Disputed
          /\ ~users[c].frozen

\* C13: a resolve or chargeback on a non-frozen account of an entry that is
\* not in state Disputed fails with "Transaction can't be resolved" and
\* leaves total, held, frozen and the state of the entry as they were.
C13_ResolveNeedsDispute ==
    Running =>
        \A tx \in Requests({Resolve, Chargeback}) :
            LET pre == Pre(tx.client) IN
            (/\ ~pre.frozen
             /\ tx.tx \in Entries(pre)
             /\ pre.tx_history[tx.tx].state # Disputed) =>
                LET out == Apply(tx)
                IN  /\ out.res = ErrCantResolve
                    /\ out.users[tx.client] = pre
                    /\ pre.tx_history[tx.tx].state = Normal

\* A resolve or chargeback has been refused on an account whose entries are
\* all Normal, one of them after a dispute and its resolve or never disputed.
C13_Witness ==
    /\ result = ErrCantResolve
    /\ \E c \in DOMAIN users :
          /\ DOMAIN users = {c}
          /\ ~users[c].frozen
          /\ Entries(users[c]) # {}
          /\ \A t \in Entries(users[c]) :
                users[c].tx_history[t].state = Normal

\* C14: a request that returns an error, whatever its kind and the error,
\* leaves total, held, frozen and the history of its account as they were,
\* and the same request applied again right after returns the same error.
C14_FailureChangesNothing ==
    Running =>
        \A tx \in TransactionRequset :
            LET out == Apply(tx) IN
            out.res # Ok =>
                /\ out.users[tx.client] = Pre(tx.client)
                /\ EngineProcessTx(out.users, tx).res = out.res
                /\ EngineProcessTx(out.users, tx).users = out.users

\* A request has failed on an account with a history and a held amount.
C14_Witness ==
    /\ result # Ok
    /\ \E c \in DOMAIN users :
          /\ DOMAIN users = {c}
          /\ Cardinality(Entries(users[c])) = 2
          /\ users[c].account.held # 0

\* C15: for a client that is not in the map, process_tx first creates a user
\* with total = 0, held = 0, an empty history and frozen = false, hands the
\* request to it and returns its result; the user stays in the map also
\* when the request fails, and no other user changes.
C15_LazyCreation ==
    Running =>
        \A tx \in TransactionRequset :
            tx.client \notin DOMAIN users =>
                LET fresh == [id |-> tx.client,
                              account |-> [total |-> 0, held |-> 0],
                              tx_history |-> <<>>, frozen |-> FALSE]
                    out == Apply(tx)
                    own == UserProcessTx(fresh, tx)
                IN  /\ DOMAIN out.users = DOMAIN users \cup {tx.client}
                    /\ out.res = own.res
                    /\ out.users[tx.client] = own.user
                    /\ out.res # Ok => out.users[tx.client] = fresh
                    /\ \A d \in DOMAIN users : out.users[d] = users[d]

\* The first request for a client was a dispute, resolve or chargeback: it
\* failed and the new user is in the map, beside one with a history.
C15_Witness ==
    /\ result = ErrInvalidTxId
    /\ DOMAIN users = Clients
    /\ \E c \in Clients :
          /\ users[c] = [id |-> c, account |-> [total |-> 0, held |-> 0],
                         tx_history |-> <<>>, frozen |-> FALSE]
          /\ \A d \in Clients \ {c} : Entries(users[d]) = TxIds

\* C16: every malformed record, a line the reader itself rejects for its
\* number of fields included, is skipped without aborting the run, so that
\* the records after it are still applied: no record ends the run.
C16_MalformedRecordsSkipped ==
    ~panicked

\* C17: in every step an entry of the history stays, with its kind and its
\* amount; an entry is new only after a deposit or withdrawal that returned
\* Ok, under the id of that request; and the state of an entry changes only
\* from Normal to Disputed by a dispute, from Disputed to Normal by a
\* resolve and from Disputed to Chargedback by a chargeback, each of that
\* id, so that Chargedback is final.
C17_HistoryIsPermanent ==
    Running =>
        \A tx \in TransactionRequset :
            LET pre == Pre(tx.client)
                out == Apply(tx)
                post == out.users[tx.client]
            IN  /\ \A t \in Entries(pre) :
                      /\ t \in Entries(post)
                      /\ post.tx_history[t].tx_type = pre.tx_history[t].tx_type
                      /\ post.tx_history[t].amount = pre.tx_history[t].amount
                      /\ post.tx_history[t].state # pre.tx_history[t].state =>
                            /\ t = tx.tx
                            /\ out.res = Ok
                            /\ <<tx.type, pre.tx_history[t].state,
                                 post.tx_history[t].state>> \in
                                   {<<Dispute, Normal, Disputed>>,
                                    <<Resolve, Disputed, Normal>>,
                                    <<Chargeback, Disputed, Chargedback>>}
                /\ \A t \in Entries(post) \ Entries(pre) :
                      /\ t = tx.tx
                      /\ out.res = Ok
                      /\ tx.type \in {Deposit, Withdrawal}
                      /\ post.tx_history[t] =
                            [tx_type |-> tx.type, amount |-> Unwrap(tx.amount),
                             state |-> Normal]

\* A history with a deposit that went through a dispute and a withdrawal
\* that was never disputed.
C17_Witness ==
    \E c \in DOMAIN users : \E t, u \in Entries(users[c]) :
        /\ users[c].tx_history[t].tx_type = Deposit
        /\ users[c].tx_history[t].state = Chargedback
        /\ users[c].tx_history[u].tx_type = Withdrawal
        /\ users[c].tx_history[u].state = Normal

\* C18: when a dispute and the resolve of the same entry have both
\* succeeded, a second dispute of that id on the account, still not frozen,
\* succeeds and adds the amount of the entry to held again, and so does a
\* third after a second resolve: the cycle can be repeated.
C18_DisputeAfterResolve ==
    Running =>
        \A tx \in Requests({Dispute}) :
            LET first == Apply(tx)
                amount == Pre(tx.client).tx_history[tx.tx].amount
                undo == [tx EXCEPT !.type = Resolve]
                back == EngineProcessTx(first.users, undo)
                second == EngineProcessTx(back.users, tx)
                back2 == EngineProcessTx(second.users, undo)
                third == EngineProcessTx(back2.users, tx)
            IN  first.res = Ok =>
                    /\ back.res = Ok
                    /\ ~back.users[tx.client].frozen
                    /\ second.res = Ok
                    /\ second.users[tx.client].tx_history[tx.tx].state
                          = Disputed
                    /\ second.users[tx.client].account.held =
                          FAdd(back.users[tx.client].account.held, amount)
                    /\ back2.res = Ok
                    /\ third.res = Ok
                    /\ third.users[tx.client].account.held =
                          FAdd(back2.users[tx.client].account.held, amount)

\* The only entry of the only user is Disputed after four records, as it is
\* after deposit, dispute, resolve, dispute.
C18_Witness ==
    /\ result = Ok
    /\ nread = 4
    /\ \E c \in Clients : \E t \in TxIds :
          /\ DOMAIN users = {c}
          /\ Entries(users[c]) = {t}
          /\ users[c].tx_history[t].state = Disputed
          /\ users[c].account.held = users[c].tx_history[t].amount
          /\ ~users[c].frozen

\* C19: every entry of every history has a non-negative amount, whatever
\* amounts the requests carry (absent, zero, of either sign).
C19_StoredAmountsNonNegative ==
    \A c \in DOMAIN users : \A t \in Entries(users[c]) :
        users[c].tx_history[t].amount >= 0

\* What one request does to the users other than its own and to an id that
\* is a key of another user's history only: no other user changes, the id
\* is not doubled for a deposit or withdrawal (a deposit with an amount
\* present and non-zero succeeds on an account that is not frozen), and a
\* dispute, resolve or chargeback of it fails with "Invalid tx id".
\* whenFrozen tells whether this last part is stated of frozen accounts as
\* well.
Isolated(tx, whenFrozen) ==
    LET pre == Pre(tx.client)
        out == Apply(tx)
        elsewhere == \E d \in DOMAIN users \ {tx.client} :
                         tx.tx \in Entries(users[d])
    IN  /\ DOMAIN out.users = DOMAIN users \cup {tx.client}
        /\ \A d \in DOMAIN users \ {tx.client} : out.users[d] = users[d]
        /\ (elsewhere /\ tx.tx \notin Entries(pre)) =>
              /\ out.res # ErrDoubled
              /\ (tx.type = Deposit /\ HasAmount(tx) /\ ~pre.frozen) =>
                    /\ out.res = Ok
                    /\ tx.tx \in Entries(out.users[tx.client])
              /\ (/\ tx.type \in {Dispute, Resolve, Chargeback}
                  /\ whenFrozen \/ ~pre.frozen) =>
                    out.res = ErrInvalidTxId

\* C20 as stated: a request for client c changes no other user; ids are
\* scoped by user, so the same id is accepted as a deposit by two clients;
\* and a dispute, resolve or chargeback whose id is a key of another
\* user's history only fails with "Invalid tx id", whatever the account of
\* c is. The property is one of Engine::process_tx on the users the
\* engine holds, so it is stated of them after every record, the last
\* included.
C20_UsersAreIsolatedAlways ==
    \A tx \in TransactionRequset : Isolated(tx, TRUE)

\* C20, amended: the same, the part about the id being stated of accounts
\* that are not frozen; a frozen account answers "Account frozen".
C20_UsersAreIsolated ==
    /\ \A tx \in TransactionRequset : Isolated(tx, FALSE)
    /\ \A tx \in Requests({Dispute, Resolve, Chargeback}) :
          Pre(tx.client).frozen =>
              /\ Apply(tx).res = ErrFrozen
              /\ Apply(tx).users[tx.client] = Pre(tx.client)

\* The two users have accepted the same id, each with its own amount.
C20_Witness ==
    /\ result = Ok
    /\ DOMAIN users = Clients
    /\ \E t \in TxIds :
          /\ \A c \in Clients : t \in Entries(users[c])
          /\ \E c, d \in Clients :
                users[c].tx_history[t].amount # users[d].tx_history[t].amount

\* The sum, as a number and not as an f64, of the amounts of the entries of
\* user under the ids in S.
RECURSIVE SumOfAmounts(_, _)
SumOfAmounts(user, S) ==
    IF S = {} THEN 0
    ELSE LET t == CHOOSE t \in S : TRUE
         IN  user.tx_history[t].amount + SumOfAmounts(user, S \ {t})

InState(user, state) ==
    {t \in Entries(user) : user.tx_history[t].state = state}

OfKind(user, kind) ==
    {t \in Entries(user) : user.tx_history[t].tx_type = kind}

\* C21: in every reachable state held of every account is the sum of the
\* amounts of its Disputed entries, 0 when there is none.
C21_HeldIsSumOfDisputed ==
    \A c \in DOMAIN users :
        users[c].account.held = SumOfAmounts(users[c], InState(users[c], Disputed))

C23_TotalIsSumOfHistory ==
    /\ \A c \in DOMAIN users :
          users[c].account.total =
              SumOfAmounts(users[c], OfKind(users[c], Deposit))
              - SumOfAmounts(users[c], OfKind(users[c], Withdrawal))
              - SumOfAmounts(users[c], InState(users[c], Chargedback))
    /\ Running =>
          \A tx \in Requests({Dispute, Resolve}) :
              Post(tx).account.total = Pre(tx.client).account.total

====
